---- MODULE Spec2Model ----
(***************************************************************************)
(* GSM 03.38 7-bit codec (src/src/lib.rs): Gsm7Writer packs characters    *)
(* into septets, least significant bit first, over a little-endian         *)
(* BitWriter; Gsm7Reader unpacks them over a little-endian BitReader.      *)
(* Characters are Unicode code points; bytes and septets are naturals.     *)
(***************************************************************************)
EXTENDS Integers, Sequences, FiniteSets, TLC

(***************************************************************************)
(* Bounds of the exploration.                                              *)
(***************************************************************************)
\* longest string written with write_char alone; past its first character,
\* which is any of Repertoire, a string is over Alphabet
MaxChars == 7
\* longest call sequence once a low-level passthrough has been used
MaxOps == 3
\* failed calls explored per writer
MaxFail == 1
\* longest arbitrary byte input over ByteAlphabet handed to a reader
MaxBytes == 3

(***************************************************************************)
(* Tables.                                                                 *)
(***************************************************************************)
ESC == 27

\* GSM7_CHARSET[s + 1] is the character of septet s.
GSM7_CHARSET ==
  << 64, 163, 36, 165, 232, 233, 249, 236, 242, 199, 10, 216, 248, 13, 197, 229,
     916, 95, 934, 915, 923, 937, 928, 936, 931, 920, 926, 27, 198, 230, 223, 201,
     32, 33, 34, 35, 164, 37, 38, 39, 40, 41, 42, 43, 44, 45, 46, 47,
     48, 49, 50, 51, 52, 53, 54, 55, 56, 57, 58, 59, 60, 61, 62, 63,
     161, 65, 66, 67, 68, 69, 70, 71, 72, 73, 74, 75, 76, 77, 78, 79,
     80, 81, 82, 83, 84, 85, 86, 87, 88, 89, 90, 196, 214, 209, 220, 167,
     191, 97, 98, 99, 100, 101, 102, 103, 104, 105, 106, 107, 108, 109, 110, 111,
     112, 113, 114, 115, 116, 117, 118, 119, 120, 121, 122, 228, 246, 241, 252, 224 >>

\* The match of read_char: <<second septet, character>>.
ReadExtArms ==
  { <<10, 12>>, <<20, 94>>, <<40, 123>>, <<41, 125>>, <<47, 92>>,
    <<60, 91>>, <<61, 126>>, <<62, 93>>, <<64, 124>>, <<101, 8364>> }

\* The match of write_char: <<character, argument of write_ext>>.
WriteExtArms ==
  { <<12, 10>>, <<94, 20>>, <<123, 40>>, <<125, 41>>, <<92, 47>>,
    <<91, 60>>, <<126, 61>>, <<93, 62>>, <<124, 64>>, <<8364, 101>> }

(***************************************************************************)
(* bitstream_io::BitWriter<W, LittleEndian> over a Vec<u8>: the bytes      *)
(* already handed to the sink and the queue of bits not yet making a byte. *)
(***************************************************************************)
BitWriterNew == [bytes |-> <<>>, qval |-> 0, qlen |-> 0]

RECURSIVE Drain(_)
Drain(bw) ==
  IF bw.qlen >= 8
  THEN Drain([bytes |-> Append(bw.bytes, bw.qval % 256),
              qval |-> bw.qval \div 256,
              qlen |-> bw.qlen - 8])
  ELSE bw

\* write::<u8>(bits, value) is refused for a width above 8 or a value that
\* does not fit the width.
BitWriterAccepts(bits, value) ==
  bits <= 8 /\ (bits < 8 => value < 2^bits)

BitWriterWrite(bw, bits, value) ==
  Drain([bw EXCEPT !.qval = bw.qval + value * 2^(bw.qlen),
                   !.qlen = bw.qlen + bits])

BitWriterWriteBit(bw, bit) ==
  BitWriterWrite(bw, 1, IF bit THEN 1 ELSE 0)

RECURSIVE BitWriterWriteBytes(_, _)
BitWriterWriteBytes(bw, buf) ==
  IF buf = <<>> THEN bw
  ELSE BitWriterWriteBytes(BitWriterWrite(bw, 8, Head(buf)), Tail(buf))

BitWriterByteAlign(bw) ==
  IF bw.qlen = 0 THEN bw ELSE Drain([bw EXCEPT !.qlen = 8])

\* BitWriter::into_writer hands back the sink; queued bits short of a byte
\* are discarded.
BitWriterIntoWriter(bw) == bw.bytes

(***************************************************************************)
(* bitstream_io::BitReader<R, LittleEndian> over a byte source: the number *)
(* of bytes taken from the source and the queue of bits not yet returned.  *)
(***************************************************************************)
BitReaderNew == [pos |-> 0, qval |-> 0, qlen |-> 0]

\* BitReaderRead taking the most significant bits first, as a big-endian
\* reader would.
BitReaderReadMsbFirst(src, br, bits) ==
  IF bits <= br.qlen
  THEN [ok |-> TRUE, value |-> br.qval \div 2^(br.qlen - bits),
        br |-> [br EXCEPT !.qval = br.qval % 2^(br.qlen - bits), !.qlen = br.qlen - bits]]
  ELSE IF br.pos >= Len(src)
  THEN [ok |-> FALSE, value |-> 0, br |-> [br EXCEPT !.qval = 0, !.qlen = 0]]
  ELSE LET need == bits - br.qlen
           byte == src[br.pos + 1]
       IN [ok |-> TRUE,
           value |-> br.qval * 2^need + byte \div 2^(8 - need),
           br |-> [pos |-> br.pos + 1, qval |-> byte % 2^(8 - need), qlen |-> 8 - need]]

\* read::<u8>(bits), bits <= 8.  ok = FALSE is UnexpectedEof.
BitReaderRead(src, br, bits) ==
  IF bits <= br.qlen
  THEN [ok |-> TRUE, value |-> br.qval % 2^bits,
        br |-> [br EXCEPT !.qval = br.qval \div 2^bits, !.qlen = br.qlen - bits]]
  ELSE IF br.pos >= Len(src)
  THEN [ok |-> FALSE, value |-> 0, br |-> [br EXCEPT !.qval = 0, !.qlen = 0]]
  ELSE LET need == bits - br.qlen
           byte == src[br.pos + 1]
       IN [ok |-> TRUE,
           value |-> br.qval + (byte % 2^need) * 2^(br.qlen),
           br |-> [pos |-> br.pos + 1, qval |-> byte \div 2^need, qlen |-> 8 - need]]

(***************************************************************************)
(* Gsm7Reader.                                                             *)
(***************************************************************************)
Gsm7ReaderNew == [reader |-> BitReaderNew]

\* EscapeArm with a default arm that falls back on the base table.
EscapeArmFallsBack(septet) ==
  IF \E a \in ReadExtArms : a[1] = septet
  THEN [kind |-> "char", c |-> (CHOOSE a \in ReadExtArms : a[1] = septet)[2],
        err |-> "none"]
  ELSE [kind |-> "char", c |-> GSM7_CHARSET[septet + 1], err |-> "none"]

\* The inner match of read_char on the septet that follows ESC.
EscapeArm(septet) ==
  IF \E a \in ReadExtArms : a[1] = septet
  THEN [kind |-> "char", c |-> (CHOOSE a \in ReadExtArms : a[1] = septet)[2],
        err |-> "none"]
  ELSE [kind |-> "err", c |-> 0, err |-> "InvalidData"]

\* GSM7_CHARSET.get(septet as usize)
BaseArm(septet) ==
  IF septet + 1 \in DOMAIN GSM7_CHARSET
  THEN [kind |-> "char", c |-> GSM7_CHARSET[septet + 1], err |-> "none"]
  ELSE [kind |-> "err", c |-> 0, err |-> "InvalidData"]

\* The first read(7) met UnexpectedEof: Ok(None).
FirstSeptetEof == [kind |-> "none", c |-> 0, err |-> "none"]

\* SecondSeptetEof handled like the first read: Ok(None).
SecondSeptetEofAsNone == [kind |-> "none", c |-> 0, err |-> "none"]

\* The read(7)? after ESC met UnexpectedEof: the error is returned.
SecondSeptetEof == [kind |-> "err", c |-> 0, err |-> "UnexpectedEof"]

\* read_char: the outcome and the reader after it.
ReadChar(src, r) ==
  LET first == BitReaderRead(src, r.reader, 7) IN
  IF ~first.ok
  THEN [out |-> FirstSeptetEof, r |-> [reader |-> first.br]]
  ELSE IF first.value = ESC
  THEN LET second == BitReaderRead(src, first.br, 7) IN
       IF ~second.ok
       THEN [out |-> SecondSeptetEof, r |-> [reader |-> second.br]]
       ELSE [out |-> EscapeArm(second.value), r |-> [reader |-> second.br]]
  ELSE [out |-> BaseArm(first.value), r |-> [reader |-> first.br]]

(***************************************************************************)
(* Gsm7Writer.                                                             *)
(***************************************************************************)
Gsm7WriterNew == [writer |-> BitWriterNew, counter |-> 0]

\* WriteExt advancing the counter by one septet only.
WriteExtCountsOne(g, b) ==
  [writer |-> BitWriterWrite(BitWriterWrite(g.writer, 7, 27), 7, b),
   counter |-> g.counter + 7]

WriteExt(g, b) ==
  [writer |-> BitWriterWrite(BitWriterWrite(g.writer, 7, 27), 7, b),
   counter |-> g.counter + 14]

\* GSM7_CHARSET.iter().position(|&v| v == c): the first index, or -1 for None.
Position(c) ==
  IF \E i \in DOMAIN GSM7_CHARSET : GSM7_CHARSET[i] = c
  THEN (CHOOSE i \in DOMAIN GSM7_CHARSET :
          /\ GSM7_CHARSET[i] = c
          /\ \A j \in DOMAIN GSM7_CHARSET : GSM7_CHARSET[j] = c => i <= j) - 1
  ELSE -1

\* The base-table arm of write_char.
WriteBase(g, b) ==
  [writer |-> BitWriterWrite(g.writer, 7, b), counter |-> g.counter + 7]

\* WriteRejected with the counter advanced before the lookup failed.
WriteRejectedCounted(g) == [g EXCEPT !.counter = g.counter + 7]

\* The else arm of write_char: Err(InvalidData), the writer as it was.
WriteRejected(g) == g

\* write_char: whether it returned Ok, and the writer after it.
WriteChar(g, c) ==
  IF \E a \in WriteExtArms : a[1] = c
  THEN [ok |-> TRUE, g |-> WriteExt(g, (CHOOSE a \in WriteExtArms : a[1] = c)[2])]
  ELSE IF Position(c) >= 0
  THEN [ok |-> TRUE, g |-> WriteBase(g, Position(c))]
  ELSE [ok |-> FALSE, g |-> WriteRejected(g)]

WriteBit(g, bit) ==
  [ok |-> TRUE,
   g |-> [writer |-> BitWriterWriteBit(g.writer, bit), counter |-> g.counter + 1]]

\* write::<u8>(bits, value)
Write(g, bits, value) ==
  IF BitWriterAccepts(bits, value)
  THEN [ok |-> TRUE,
        g |-> [writer |-> BitWriterWrite(g.writer, bits, value),
               counter |-> g.counter + bits]]
  ELSE [ok |-> FALSE, g |-> g]

WriteBytes(g, buf) ==
  [ok |-> TRUE, g |-> [g EXCEPT !.writer = BitWriterWriteBytes(g.writer, buf)]]

\* into_writer up to the call of BitWriter::into_writer: the padding.
Pad(g) ==
  LET remainder == g.counter % 8 IN
  IF remainder = 7 THEN [g EXCEPT !.writer = BitWriterWrite(g.writer, 7, 13)]
  ELSE IF remainder # 0 THEN [g EXCEPT !.writer = BitWriterByteAlign(g.writer)]
  ELSE g

IntoWriter(g) == BitWriterIntoWriter(Pad(g).writer)

(***************************************************************************)
(* Inputs.                                                                 *)
(***************************************************************************)
\* '`', 'c' with cedilla (lower case) and a CJK ideograph: in neither table.
Unencodable == {96, 231, 20013}

BaseChars == {GSM7_CHARSET[i] : i \in DOMAIN GSM7_CHARSET}

ExtChars == {a[1] : a \in WriteExtArms}

Repertoire == BaseChars \cup ExtChars \cup Unencodable

\* 'A', '^' and an unencodable character, for the long strings.
Alphabet == {65, 94, 20013}

RawWrites == {<<1, 1>>, <<3, 5>>, <<8, 255>>, <<3, 8>>, <<9, 0>>}

RawBufs == {<<>>, <<65>>, <<65, 13>>}

ByteAlphabet == {0, 13, 27, 84, 128, 255}

RECURSIVE SeqsUpTo(_, _)
SeqsUpTo(S, n) ==
  IF n = 0 THEN {<<>>}
  ELSE LET shorter == SeqsUpTo(S, n - 1)
       IN shorter \cup {Append(q, x) : q \in {t \in shorter : Len(t) = n - 1}, x \in S}

ByteInputs ==
  SeqsUpTo(ByteAlphabet, MaxBytes)
    \cup {<<b>> : b \in 0..255}
    \cup {<<27, b>> : b \in 0..255}
    \cup {<<84, 58, 157, 14>>, <<212, 242, 156, 14>>}

(***************************************************************************)
(* State.                                                                  *)
(***************************************************************************)
VARIABLES
  pc,       \* "writing", "written", "reading", "eof" (None returned), "failed" (Err returned)
  w,        \* the Gsm7Writer; after into_writer, its BitWriter as into_writer left it
  pre,      \* the Gsm7Writer as into_writer found it
  out,      \* the Vec<u8> into_writer returned
  chars,    \* the characters write_char accepted, in order
  nraw,     \* calls of write_bit, write and write_bytes that returned Ok
  rejected, \* for each call that returned Err, the number of calls accepted before it
  last,     \* the last call, its character argument and whether it returned Ok
  src,      \* the bytes under the Gsm7Reader
  r,        \* the Gsm7Reader
  decoded,  \* the characters read_char returned, in order
  rerr      \* the error read_char returned, or "none"

vars == <<pc, w, pre, out, chars, nraw, rejected, last, src, r, decoded, rerr>>

wvars == <<w, pre, out, chars, nraw, rejected>>

rvars == <<src, r, decoded, rerr>>

Init ==
  /\ pc = "writing"
  /\ w = Gsm7WriterNew
  /\ pre = Gsm7WriterNew
  /\ out = <<>>
  /\ chars = <<>>
  /\ nraw = 0
  /\ rejected = <<>>
  /\ last = [op |-> "new", c |-> 0, ok |-> TRUE]
  /\ src = <<>>
  /\ r = Gsm7ReaderNew
  /\ decoded = <<>>
  /\ rerr = "none"

OverAlphabet == \A i \in DOMAIN chars : chars[i] \in Alphabet

\* The strings and call sequences explored.
CharInBounds(c) ==
  IF nraw = 0
  THEN \/ c \in Repertoire /\ chars = <<>>
       \/ c \in Alphabet /\ OverAlphabet /\ Len(chars) < MaxChars
  ELSE c \in Alphabet /\ Len(chars) + nraw < MaxOps

RawInBounds == OverAlphabet /\ Len(chars) + nraw < MaxOps

\* A call on the writer that returned res.
Called(op, c, res) ==
  /\ res.ok \/ Len(rejected) < MaxFail
  /\ w' = res.g
  /\ rejected' = IF res.ok THEN rejected ELSE Append(rejected, Len(chars) + nraw)
  /\ last' = [op |-> op, c |-> c, ok |-> res.ok]
  /\ UNCHANGED <<pc, pre, out>>
  /\ UNCHANGED rvars

write_char(c) ==
  /\ pc = "writing"
  /\ CharInBounds(c)
  /\ LET res == WriteChar(w, c) IN
       /\ Called("write_char", c, res)
       /\ chars' = IF res.ok THEN Append(chars, c) ELSE chars
  /\ UNCHANGED nraw

write_bit(bit) ==
  /\ pc = "writing"
  /\ RawInBounds
  /\ Called("write_bit", 0, WriteBit(w, bit))
  /\ nraw' = nraw + 1
  /\ UNCHANGED chars

write(bits, value) ==
  /\ pc = "writing"
  /\ RawInBounds
  /\ LET res == Write(w, bits, value) IN
       /\ Called("write", 0, res)
       /\ nraw' = IF res.ok THEN nraw + 1 ELSE nraw
  /\ UNCHANGED chars

write_bytes(buf) ==
  /\ pc = "writing"
  /\ RawInBounds
  /\ Called("write_bytes", 0, WriteBytes(w, buf))
  /\ nraw' = nraw + 1
  /\ UNCHANGED chars

into_writer ==
  /\ pc = "writing"
  /\ pc' = "written"
  /\ pre' = w
  /\ w' = Pad(w)
  /\ out' = IntoWriter(w)
  /\ last' = [op |-> "into_writer", c |-> 0, ok |-> TRUE]
  /\ UNCHANGED <<chars, nraw, rejected>>
  /\ UNCHANGED rvars

\* Gsm7Reader::new over the bytes a writer produced, or over given bytes.
new_reader ==
  /\ \/ pc = "written" /\ src' = out
     \/ pc = "writing" /\ last.op = "new" /\ src' \in ByteInputs
  /\ pc' = "reading"
  /\ r' = Gsm7ReaderNew
  /\ UNCHANGED <<decoded, rerr, last>>
  /\ UNCHANGED wvars

\* read_char, as Iterator::next calls it; the caller stops at None and at Err.
read_char ==
  /\ pc = "reading"
  /\ LET res == ReadChar(src, r) IN
       /\ r' = res.r
       /\ pc' = CASE res.out.kind = "char" -> "reading"
                  [] res.out.kind = "none" -> "eof"
                  [] OTHER -> "failed"
       /\ decoded' = IF res.out.kind = "char" THEN Append(decoded, res.out.c) ELSE decoded
       /\ rerr' = res.out.err
  /\ UNCHANGED <<src, last>>
  /\ UNCHANGED wvars

Next ==
  \/ \E c \in Repertoire : write_char(c)
  \/ \E bit \in BOOLEAN : write_bit(bit)
  \/ \E a \in RawWrites : write(a[1], a[2])
  \/ \E buf \in RawBufs : write_bytes(buf)
  \/ into_writer
  \/ new_reader
  \/ read_char

Spec == Init /\ [][Next]_vars

TypeOK ==
  /\ pc \in {"writing", "written", "reading", "eof", "failed"}
  /\ w.counter \in Nat
  /\ w.writer.qlen \in 0..7 \/ pc # "writing"
  /\ rerr \in {"none", "InvalidData", "UnexpectedEof"}

(***************************************************************************)
(* Vocabulary of the properties: the packed format read positionally.      *)
(***************************************************************************)
\* Bit i of a byte sequence; bit 0 is the least significant bit of byte 0.
BitAt(bytes, i) == (bytes[(i \div 8) + 1] \div 2^(i % 8)) % 2

\* The septet made of bits 7k .. 7k+6.
SeptetAt(bytes, k) ==
  BitAt(bytes, 7 * k) + 2 * BitAt(bytes, 7 * k + 1) + 4 * BitAt(bytes, 7 * k + 2)
    + 8 * BitAt(bytes, 7 * k + 3) + 16 * BitAt(bytes, 7 * k + 4)
    + 32 * BitAt(bytes, 7 * k + 5) + 64 * BitAt(bytes, 7 * k + 6)

NumSeptets(bytes) == (8 * Len(bytes)) \div 7

\* Every bit a BitWriter was given, in order: its bytes, then its queue.
TotalBits(bw) == 8 * Len(bw.bytes) + bw.qlen

BitsOf(bw) ==
  [i \in 1..TotalBits(bw) |->
     IF i <= 8 * Len(bw.bytes) THEN BitAt(bw.bytes, i - 1)
     ELSE (bw.qval \div 2^(i - 1 - 8 * Len(bw.bytes))) % 2]

SeptetBits(v) == [i \in 1..7 |-> (v \div 2^(i - 1)) % 2]

Zeros(n) == [i \in 1..n |-> 0]

\* Septet k of the bits a BitWriter was given.
StreamSeptet(bw, k) ==
  LET b == BitsOf(bw) IN
  b[7 * k + 1] + 2 * b[7 * k + 2] + 4 * b[7 * k + 3] + 8 * b[7 * k + 4]
    + 16 * b[7 * k + 5] + 32 * b[7 * k + 6] + 64 * b[7 * k + 7]

\* The extension table as the specification lists it: <<character, code>>.
ExtensionTable ==
  { <<12, 10>>, <<94, 20>>, <<123, 40>>, <<125, 41>>, <<92, 47>>,
    <<91, 60>>, <<126, 61>>, <<93, 62>>, <<124, 64>>, <<8364, 101>> }

ExtensionChars == {e[1] : e \in ExtensionTable}

ExtensionCodes == {e[2] : e \in ExtensionTable}

\* Units a character takes on the wire: two for an extension character.
RECURSIVE Units(_)
Units(s) ==
  IF s = <<>> THEN 0
  ELSE (IF Head(s) \in ExtensionChars THEN 2 ELSE 1) + Units(Tail(s))

\* The writer that accepted exactly the characters of s.
RECURSIVE Replay(_, _)
Replay(g, s) ==
  IF s = <<>> THEN g ELSE Replay(WriteChar(g, Head(s)).g, Tail(s))

\* The Gsm7Writer as the last write left it.
Written == IF pc = "writing" THEN w ELSE pre

FromWriter == last.op = "into_writer"

Finished == pc \in {"eof", "failed"}

\* read_char has returned at least once.
HasRead == Finished \/ decoded # <<>>

(***************************************************************************)
(* C1.  Round trip: a string of base-table and extension characters,       *)
(* written with write_char on a fresh writer and finalized, decodes to     *)
(* exactly its characters, with no error.                                  *)
(***************************************************************************)
C1_RoundTrip ==
  (FromWriter /\ nraw = 0 /\ rejected = <<>> /\ Finished)
    => (pc = "eof" /\ rerr = "none" /\ decoded = chars)

(***************************************************************************)
(* C2.  Padding law 1: when the bits written, modulo 8, are 1, into_writer *)
(* appends one final septet of value 0x0D.                                 *)
(***************************************************************************)
C2_PaddingLaw1 ==
  (FromWriter /\ nraw = 0 /\ TotalBits(pre.writer) % 8 = 1)
    => /\ 8 * Len(out) >= TotalBits(pre.writer) + 7
       /\ SeptetAt(out, TotalBits(pre.writer) \div 7) = 13

(***************************************************************************)
(* C3.  Every 0x1B septet write_char emitted begins the two septets of an  *)
(* extension character and is followed by that character's code; no        *)
(* accepted character is a lone 0x1B.                                      *)
(***************************************************************************)
C3_EscapeOnlyForExtension ==
  nraw = 0 =>
    \A k \in 0..(Units(chars) - 1) :
      StreamSeptet(Written.writer, k) = ESC =>
        \E i \in DOMAIN chars :
          /\ Units(SubSeq(chars, 1, i - 1)) = k
          /\ k + 1 < Units(chars)
          /\ <<chars[i], StreamSeptet(Written.writer, k + 1)>> \in ExtensionTable

(***************************************************************************)
(* C4.  After any sequence of write_bit, write, write_bytes and write_char *)
(* the counter is the number of bits written.                              *)
(***************************************************************************)
C4_CounterCountsBits ==
  Written.counter = TotalBits(Written.writer)

(***************************************************************************)
(* C5 as stated.  [0x1B, X] with X not an extension code: the first        *)
(* read_char returns InvalidData and no character.                         *)
(***************************************************************************)
C5_ByteNotExtensionCode ==
  (last.op = "new" /\ Len(src) = 2 /\ src[1] = 27 /\ src[2] \notin ExtensionCodes /\ HasRead)
    => (pc = "failed" /\ rerr = "InvalidData" /\ decoded = <<>>)

(***************************************************************************)
(* C5 amended.  [0x1B, X] whose second septet, bits 7..13 of the input     *)
(* (twice X mod 64), is not an extension code: the first read_char returns *)
(* InvalidData and no character.                                           *)
(***************************************************************************)
C5_SeptetNotExtensionCode ==
  (last.op = "new" /\ Len(src) = 2 /\ src[1] = 27 /\ HasRead
     /\ SeptetAt(src, 1) \notin ExtensionCodes)
    => (pc = "failed" /\ rerr = "InvalidData" /\ decoded = <<>>
        /\ SeptetAt(src, 1) = 2 * (src[2] % 64))

C5_Witness ==
  src = <<27, 1>> /\ pc = "failed" /\ rerr = "InvalidData" /\ decoded = <<>>

(***************************************************************************)
(* C6.  write_char with a character of neither table returns an error,     *)
(* emits no bit and leaves the counter; the writer then is the writer the  *)
(* accepted characters alone produce, and so are the bytes of into_writer. *)
(***************************************************************************)
C6_RejectedCharLeavesWriter ==
  /\ (last.op = "write_char" /\ last.c \notin (BaseChars \cup ExtChars)) => ~last.ok
  /\ (nraw = 0 /\ rejected # <<>>) =>
       /\ Written = Replay(Gsm7WriterNew, chars)
       /\ Written.counter = 7 * Units(chars)
       /\ TotalBits(Written.writer) = 7 * Units(chars)
       /\ FromWriter => out = IntoWriter(Replay(Gsm7WriterNew, chars))

C6_Witness ==
  /\ pc = "written" /\ nraw = 0
  /\ rejected = <<1>> /\ chars = <<65, 94, 65>>
  /\ out = <<193, 13, 37, 8>>

(***************************************************************************)
(* C7.  Escape fidelity: each extension character is accepted, emits       *)
(* exactly the septets 0x1B and its code (14 bits, the counter advanced by *)
(* 14), and alone in a writer decodes to itself and then end of stream.    *)
(***************************************************************************)
C7_EscapeFidelity ==
  \A e \in ExtensionTable :
    /\ (last.op = "write_char" /\ last.c = e[1]) =>
         /\ last.ok
         /\ nraw = 0 =>
              /\ w.counter = 7 * Units(chars)
              /\ TotalBits(w.writer) = 7 * Units(chars)
              /\ StreamSeptet(w.writer, Units(chars) - 2) = 27
              /\ StreamSeptet(w.writer, Units(chars) - 1) = e[2]
    /\ (nraw = 0 /\ chars = <<e[1]>>) =>
         /\ Written.counter = 14
         /\ BitsOf(Written.writer) = SeptetBits(27) \o SeptetBits(e[2])
         /\ FromWriter =>
              /\ pc # "failed" /\ rerr = "none"
              /\ decoded \in {<<>>, <<e[1]>>}
              /\ pc = "eof" => decoded = <<e[1]>>

C7_Witness ==
  /\ chars = <<8364>> /\ nraw = 0 /\ pre.counter = 14
  /\ out = <<155, 50>> /\ pc = "eof" /\ decoded = <<8364>>

(***************************************************************************)
(* C8.  The reader unpacks septets least significant bit first: with no    *)
(* 0x1B septet in the input, character k is the base-table entry of bits   *)
(* 7k..7k+6, trailing bits short of a septet are dropped, and the two      *)
(* known vectors decode to "Tttt" and "Test".                              *)
(***************************************************************************)
C8_LsbFirstUnpacking ==
  /\ (pc \in {"reading", "eof", "failed"}
        /\ \A k \in 0..(NumSeptets(src) - 1) : SeptetAt(src, k) # ESC)
       => /\ pc # "failed" /\ rerr = "none"
          /\ Len(decoded) <= NumSeptets(src)
          /\ \A k \in DOMAIN decoded : decoded[k] = GSM7_CHARSET[SeptetAt(src, k - 1) + 1]
          /\ pc = "eof" => Len(decoded) = NumSeptets(src)
  /\ (src = <<84, 58, 157, 14>> /\ pc = "eof") => decoded = <<84, 116, 116, 116>>
  /\ (src = <<212, 242, 156, 14>> /\ pc = "eof") => decoded = <<84, 101, 115, 116>>

C8_Witness ==
  src = <<84, 58, 157, 14>> /\ pc = "eof" /\ decoded = <<84, 116, 116, 116>>

(***************************************************************************)
(* C9.  Exhaustion by place: the source running out on the first septet of *)
(* a unit (nothing left, or a partial septet) is Ok(None), no error; the   *)
(* source running out on the septet after an escape marker is an error.    *)
(***************************************************************************)
\* Septet k is an escape marker: 0x1B, and not the second septet of a pair.
RECURSIVE MarkerAt(_, _)
MarkerAt(bytes, k) ==
  /\ k >= 0
  /\ SeptetAt(bytes, k) = ESC
  /\ ~MarkerAt(bytes, k - 1)

\* The last whole septet of the source is an escape marker.
EndsInMarker == MarkerAt(src, NumSeptets(src) - 1)

C9_ExhaustionByPlace ==
  /\ pc = "eof" =>
       /\ rerr = "none"
       /\ Len(decoded) <= NumSeptets(src)
       /\ NumSeptets(src) = Units(decoded)
       /\ ~EndsInMarker
  /\ (Finished /\ EndsInMarker /\ Units(decoded) = NumSeptets(src) - 1) =>
       (pc = "failed" /\ rerr = "UnexpectedEof")
  /\ rerr = "UnexpectedEof" =>
       (pc = "failed" /\ EndsInMarker /\ Units(decoded) = NumSeptets(src) - 1)
  /\ (Finished /\ src = <<>>) => (pc = "eof" /\ decoded = <<>>)

C9_Witness ==
  src = <<128, 13>> /\ pc = "failed" /\ rerr = "UnexpectedEof" /\ decoded = <<64>>

(***************************************************************************)
(* C10.  into_writer pads by r = counter mod 8 alone: r = 7 writes one     *)
(* septet 0x0D; r in 1..6 writes no septet, only zero bits to the byte     *)
(* boundary; r = 0 writes nothing, and the output has counter / 8 bytes.   *)
(***************************************************************************)
C10_PaddingByRemainder ==
  FromWriter =>
    LET rem == pre.counter % 8
        before == BitsOf(pre.writer)
        after == BitsOf(w.writer)
    IN /\ rem = 7 => after = before \o SeptetBits(13)
       /\ rem \in 1..6 =>
            /\ \E n \in 1..7 : after = before \o Zeros(n)
            /\ Len(after) % 8 = 0
            /\ 8 * Len(out) = Len(after)
       /\ rem = 0 =>
            /\ after = before
            /\ Len(out) = pre.counter \div 8

====
